---- MODULE Spec2Model ----
(***************************************************************************)
(* Order persistence core of the food delivery system: DatabaseManager     *)
(* (src/src/db_manager.py) over a transactional relational store, with its *)
(* callers (auth.py, tkinter_ui.py), the cache (cache.py) and the delivery *)
(* tracker (delivery_tracker.py).                                          *)
(*                                                                         *)
(* Storage model.  Every executor owns at most one connection.  The        *)
(* driver runs with autocommit off, so the writes of a connection stay in  *)
(* that connection's open transaction (txn) until commit() publishes them, *)
(* rollback() discards them, or the connection goes away (the server then  *)
(* rolls the transaction back).  A statement that storage rejects has no   *)
(* effect of its own and leaves the open transaction as it was.  A reader  *)
(* sees the committed rows plus the pending rows of its own connection.    *)
(* Any call into the driver may raise mysql.connector.Error.               *)
(***************************************************************************)
EXTENDS Integers, Sequences, FiniteSets, TLC

\* Caps on the AUTO_INCREMENT counter of the orders table: create_order calls
\* are made while the counter is within the cap of the specification.
MaxOrders == 2
\* The cap for the order history read path, where three orders of one user
\* are needed.
MaxHistory == 3

Executors == {1, 2}

(***************************************************************************)
(* Python values handed to create_order inside an item dict.  t is the     *)
(* Python type ("int", "float", "str" for a non-numeric string, "missing"  *)
(* for an absent key); a number is n + d/10.                               *)
(***************************************************************************)
PyInt(n) == [t |-> "int", n |-> n, d |-> 0]
PyFloat(n, d) == [t |-> "float", n |-> n, d |-> d]
PyStr == [t |-> "str", n |-> 0, d |-> 0]
PyMissing == [t |-> "missing", n |-> 0, d |-> 0]

\* int(v): truncation toward zero.  Defined when CanConvert(v).
int(v) == v.n
\* float(v), in tenths.
float(v) == v.n * 10 + v.d
\* item[key] raises KeyError when the key is absent; int()/float() raise
\* ValueError on a non-numeric string.
CanConvert(v) == v.t \in {"int", "float"}

\* Catalog tables, read-only for this core.
MenuItems == {1, 2, 6}
Restaurants == {3, 4}
item_name(id) == IF id = 1 THEN "Burger" ELSE IF id = 2 THEN "Fries" ELSE "Latte"
restaurant_name(id) == IF id = 3 THEN "Diner" ELSE "Cafe"

\* Inputs.
ItemA == [item_id |-> PyInt(1), quantity |-> PyInt(2), price |-> PyFloat(10, 0)]
ItemB == [item_id |-> PyInt(2), quantity |-> PyInt(1), price |-> PyFloat(5, 0)]
ItemNoQty == [item_id |-> PyInt(2), quantity |-> PyMissing, price |-> PyFloat(5, 0)]
ItemBadId == [item_id |-> PyStr, quantity |-> PyInt(1), price |-> PyFloat(5, 0)]
ItemHalf == [item_id |-> PyInt(1), quantity |-> PyFloat(2, 5), price |-> PyFloat(10, 0)]
ItemOrphan == [item_id |-> PyInt(9), quantity |-> PyInt(1), price |-> PyFloat(5, 0)]

ItemLists ==
    { <<>>, <<ItemA, ItemB>>, <<ItemA, ItemNoQty>>, <<ItemBadId>>,
      <<ItemHalf, ItemOrphan>> }
UserIds == {7}
RestaurantIds == {3}
\* total_amount, in tenths: the sum over <<ItemA, ItemB>>, and another value.
Totals == {250, 100}

\* `sum(it['qty'] * it['price'] for it in self.cart)`, in tenths.
RECURSIVE LineTotal(_)
LineTotal(items) ==
    IF items = <<>> THEN 0
    ELSE int(Head(items).quantity) * float(Head(items).price) + LineTotal(Tail(items))
Usernames == {"alice"}

None == [kind |-> "None", id |-> 0, rows |-> <<>>]
True == [kind |-> "True", id |-> 0, rows |-> <<>>]
False == [kind |-> "False", id |-> 0, rows |-> <<>>]
Raised == [kind |-> "raised", id |-> 0, rows |-> <<>>]
Rows(rs) == [kind |-> "rows", id |-> 0, rows |-> rs]
Row(r) == [kind |-> "row", id |-> 0, rows |-> <<r>>]
OrderId(n) == [kind |-> "id", id |-> n, rows |-> <<>>]

VARIABLES
    orders,        \* committed rows of table orders (a set of records)
    order_items,   \* committed rows of table order_items, in insertion order
    users,         \* committed rows of table users (usernames)
    nextId,        \* AUTO_INCREMENT of orders.order_id
    clock,         \* storage time, stamps orders.order_date
    connection,    \* self.connection of each executor: "None", "open", "closed"
    txn,           \* pending writes of each executor's connection
    cursors,       \* open cursors of each executor
    pc,            \* position of each executor inside create_order
    frame,         \* locals of the create_order call in flight
    last,          \* the last call each executor completed
    submitted,     \* order id -> number of items its create_order call was given
    acked,         \* usernames for which create_user returned True
    returned,      \* the order ids create_order returned, oldest first
    stale,         \* per executor: a handle it dialled earlier and dropped
                   \* without close() is still open
    \* FoodDeliveryApp (tkinter_ui.py)
    current_user,  \* self.current_user, "" for None
    cart,          \* self.cart
    selected_restaurant_id,   \* self.selected_restaurant_id, 0 for None
    screen,        \* the screen the window shows
    tree,          \* the rows of the menu list on the menu screen
    flow,          \* the handler in progress and its position
    backend,       \* the optional methods self.db provides
    \* Cache (cache.py)
    cache,         \* self._cache: key -> (value, timestamp)
    now,           \* time.time()
    set_at,        \* key -> time of its last set since delete/clear, -1 if none
    cache_last,    \* the last Cache call and its result
    \* DeliveryTracker (delivery_tracker.py)
    deliveries,    \* self.deliveries
    delivered,     \* order ids for which complete_delivery returned True
    tracker_last   \* the last DeliveryTracker call and its result

storageVars == <<orders, order_items, users, nextId, clock, connection, txn,
                 cursors, pc, frame, last, submitted, acked, returned, stale>>
uiVars == <<current_user, cart, selected_restaurant_id, screen, tree, flow,
            backend>>
cacheVars == <<cache, now, set_at, cache_last>>
trackerVars == <<deliveries, delivered, tracker_last>>
vars == <<orders, order_items, users, nextId, clock, connection, txn, cursors,
          pc, frame, last, submitted, acked, returned, stale,
          uiVars, cacheVars, trackerVars>>

NoTxn == [orders |-> {}, items |-> <<>>, users |-> {}]
NoFrame == [user_id |-> 0, restaurant_id |-> 0, items |-> <<>>, total_amount |-> 0,
            order_id |-> 0, k |-> 0, sent |-> 0]
NoCall == [op |-> "init", ret |-> None, result |-> None, path |-> "", opened |-> 0,
           sent |-> 0, order_id |-> 0, items |-> <<>>, arg |-> 0, before |-> "",
           rollback |-> "", query |-> <<>>]

\* FoodDeliveryApp.__init__
NoFlow == [name |-> "idle", at |-> "", username |-> "", password_ok |-> FALSE,
           found |-> FALSE, user_id |-> 0, order_id |-> None, dialled |-> FALSE]
InitApp ==
    /\ current_user = ""
    /\ cart = <<>>
    /\ selected_restaurant_id = 0
    /\ screen = "login"
    /\ tree = {}
    /\ flow = NoFlow

\* Cache.__init__
CacheKeys == {"k1", "k2"}
NotSet == [at |-> -1, value |-> None]
NoCacheCall == [op |-> "init", key |-> "", ret |-> None, at |-> 0]
InitCache ==
    /\ cache = [k \in {} |-> <<None, 0>>]
    /\ now = 0
    /\ set_at = [k \in CacheKeys |-> NotSet]
    /\ cache_last = NoCacheCall

\* DeliveryTracker.__init__
NoTrackerCall == [op |-> "init", order_id |-> 0, ret |-> None, known |-> FALSE,
                  changed |-> FALSE]
InitTracker ==
    /\ deliveries = [o \in {} |-> 0]
    /\ delivered = {}
    /\ tracker_last = NoTrackerCall

\* DatabaseManager.__init__ over empty tables, with the application, the
\* cache and the tracker as constructed.
Init ==
    /\ orders = {}
    /\ order_items = <<>>
    /\ users = {}
    /\ nextId = 1
    /\ clock = 0
    /\ connection = [e \in Executors |-> "None"]
    /\ txn = [e \in Executors |-> NoTxn]
    /\ cursors = [e \in Executors |-> 0]
    /\ pc = [e \in Executors |-> "idle"]
    /\ frame = [e \in Executors |-> NoFrame]
    /\ last = [e \in Executors |-> NoCall]
    /\ submitted = [i \in {} |-> 0]
    /\ acked = {}
    /\ returned = <<>>
    /\ stale = [e \in Executors |-> FALSE]
    /\ InitApp
    /\ backend = {}
    /\ InitCache
    /\ InitTracker

\* A guard that only tests `not self.connection`.
has_connection(e) == connection[e] # "None"

\* `if not self.connection or not self.connection.is_connected()`
is_connected(e) == connection[e] = "open"

Call(op, ret, path, opened, sent, oid, items, arg, before) ==
    [op |-> op, ret |-> ret, result |-> ret, path |-> path, opened |-> opened,
     sent |-> sent, order_id |-> oid, items |-> items, arg |-> arg,
     before |-> before, rollback |-> "", query |-> <<>>]

(***************************************************************************)
(* connect                                                                 *)
(***************************************************************************)
\* mysql.connector.connect(...) raises Error: the assignment to
\* self.connection never happens, so an earlier handle stays in place.
ConnectRaises(e) ==
    /\ last' = [last EXCEPT ![e] =
                  Call("connect", False, "error", 0, 0, 0, <<>>, 0, connection[e])]
    /\ UNCHANGED <<connection, txn, stale>>

\* The handle self.connection held is dropped by the assignment of a new
\* one, with no close(): if it was open it stays open until the runtime
\* happens to collect it.
Dropped(e) ==
    IF connection[e] = "open"
    THEN \E kept \in BOOLEAN : stale' = [stale EXCEPT ![e] = @ \/ kept]
    ELSE UNCHANGED stale

\* connect that reports by `up` but always keeps a live handle.
ConnectReturnsLive(e, up) ==
    /\ connection' = [connection EXCEPT ![e] = "open"]
    /\ txn' = [txn EXCEPT ![e] = NoTxn]
    /\ Dropped(e)
    /\ last' = [last EXCEPT ![e] =
                  Call("connect", IF up THEN True ELSE False,
                       IF up THEN "ok" ELSE "not_connected", 0, 0, 0, <<>>, 0,
                       connection[e])]

\* The dial returns a handle: it replaces self.connection.  The transaction
\* of a replaced handle is never committed.
ConnectReturns(e, up) ==
    /\ connection' = [connection EXCEPT ![e] = IF up THEN "open" ELSE "closed"]
    /\ txn' = [txn EXCEPT ![e] = NoTxn]
    /\ Dropped(e)
    /\ last' = [last EXCEPT ![e] =
                  Call("connect", IF up THEN True ELSE False,
                       IF up THEN "ok" ELSE "not_connected", 0, 0, 0, <<>>, 0,
                       connection[e])]

Connect(e) ==
    /\ pc[e] = "idle"
    /\ \/ ConnectRaises(e)
       \/ \E up \in BOOLEAN : ConnectReturns(e, up)
    /\ UNCHANGED <<orders, order_items, users, nextId, clock, cursors, pc, frame,
                   submitted, acked, returned>>

(***************************************************************************)
(* disconnect                                                              *)
(***************************************************************************)
\* A disconnect that never closes the handle.
DisconnectKeeps(e) ==
    /\ pc[e] = "idle"
    /\ UNCHANGED <<connection, txn>>
    /\ last' = [last EXCEPT ![e] =
                  Call("disconnect", None, "ok", 0, 0, 0, <<>>, 0, connection[e])]
    /\ UNCHANGED <<orders, order_items, users, nextId, clock, cursors, pc, frame,
                   submitted, acked, returned, stale>>

\* `if self.connection and self.connection.is_connected(): close()`; close()
\* ends the session, and the server rolls back its open transaction.
Disconnect(e) ==
    /\ pc[e] = "idle"
    /\ IF is_connected(e)
       THEN /\ connection' = [connection EXCEPT ![e] = "closed"]
            /\ txn' = [txn EXCEPT ![e] = NoTxn]
       ELSE UNCHANGED <<connection, txn>>
    /\ last' = [last EXCEPT ![e] =
                  Call("disconnect", None, "ok", 0, 0, 0, <<>>, 0, connection[e])]
    /\ UNCHANGED <<orders, order_items, users, nextId, clock, cursors, pc, frame,
                   submitted, acked, returned, stale>>

(***************************************************************************)
(* Statement texts and their classification                                *)
(***************************************************************************)
Whitespace == {" ", "\n", "\t"}

RECURSIVE lstrip(_)
lstrip(s) ==
    IF s # <<>> /\ Head(s) \in Whitespace THEN lstrip(Tail(s)) ELSE s

RECURSIVE rstrip(_)
rstrip(s) ==
    IF s # <<>> /\ s[Len(s)] \in Whitespace
    THEN rstrip(SubSeq(s, 1, Len(s) - 1)) ELSE s

strip(s) == rstrip(lstrip(s))

upperChar(c) ==
    CASE c = "s" -> "S" [] c = "e" -> "E" [] c = "l" -> "L" [] c = "c" -> "C"
      [] c = "t" -> "T" [] c = "i" -> "I" [] c = "n" -> "N" [] c = "r" -> "R"
      [] c = "w" -> "W" [] c = "h" -> "H" [] OTHER -> c

upper(s) == [i \in DOMAIN s |-> upperChar(s[i])]

startswith(s, p) == Len(s) >= Len(p) /\ SubSeq(s, 1, Len(p)) = p

SELECT == <<"S", "E", "L", "E", "C", "T">>

\* A classification that compares the text as written.
IsSelectExact(query) == startswith(query, SELECT)

\* `query.strip().upper().startswith('SELECT')`
IsSelect(query) == startswith(upper(strip(query)), SELECT)

\* The four statements of the module.  text is the head of the SQL text as
\* written in the source (the triple-quoted ones open with a newline and
\* indentation); verb and table are what storage does with the statement.
UserByUsernameQuery ==
    [text |-> SELECT \o <<" ", "*">>, verb |-> "select", table |-> "users"]
CreateUserQuery ==
    [text |-> <<"\n", " ", " ", "I", "N", "S", "E", "R", "T", " ">>,
     verb |-> "insert", table |-> "users"]
UserOrdersQuery ==
    [text |-> <<"\n", " ", " ">> \o SELECT \o <<" ", "o">>,
     verb |-> "select", table |-> "orders"]
OrderItemsQuery ==
    [text |-> <<"\n", " ", " ">> \o SELECT \o <<" ", "o", "i">>,
     verb |-> "select", table |-> "order_items"]

\* The reads behind get_restaurants and get_menu_items.
RestaurantsQuery ==
    [text |-> SELECT \o <<" ", "*">>, verb |-> "select", table |-> "restaurants"]
MenuItemsQuery ==
    [text |-> SELECT \o <<" ", "*">>, verb |-> "select", table |-> "menu_items"]

\* Statements a caller hands to execute_query directly: a read written in
\* lower case behind a blank, and a read that opens with a WITH clause.
LowerSelectQuery ==
    [text |-> <<" ", "s", "e", "l", "e", "c", "t", " ", "*">>,
     verb |-> "select", table |-> "users"]
WithSelectQuery ==
    [text |-> <<"W", "I", "T", "H", " ", "u", " ", "A", "S">>,
     verb |-> "select", table |-> "users"]
RawQueries == {LowerSelectQuery, WithSelectQuery}

(***************************************************************************)
(* Storage                                                                 *)
(***************************************************************************)
\* Rows a statement on executor e's connection reads.
VisibleOrders(e) == orders \cup txn[e].orders

\* A read that also sees the uncommitted rows of the other connection.
VisibleItemsDirty(e) ==
    order_items \o txn[e].items \o txn[CHOOSE x \in Executors : x # e].items

VisibleItems(e) == order_items \o txn[e].items
VisibleUsers(e) == users \cup txn[e].users

\* COMMIT of a transaction t.
CommittedOrders(t) == orders \cup t.orders
CommittedItems(t) == order_items \o t.items
CommittedUsers(t) == users \cup t.users

\* ORDER BY o.order_date DESC; rows of equal date in insertion order.
Newest(S) ==
    CHOOSE o \in S : \A p \in S :
        \/ o.order_date > p.order_date
        \/ o.order_date = p.order_date /\ o.order_id <= p.order_id

\* ORDER BY o.order_date ASC.
Oldest(S) ==
    CHOOSE o \in S : \A p \in S :
        \/ o.order_date < p.order_date
        \/ o.order_date = p.order_date /\ o.order_id <= p.order_id

RECURSIVE OrderByDateAsc(_)
OrderByDateAsc(S) ==
    IF S = {} THEN <<>>
    ELSE <<Oldest(S)>> \o OrderByDateAsc(S \ {Oldest(S)})

RECURSIVE OrderByDateDesc(_)
OrderByDateDesc(S) ==
    IF S = {} THEN <<>>
    ELSE <<Newest(S)>> \o OrderByDateDesc(S \ {Newest(S)})

\* SELECT o.*, r.name ... JOIN restaurants r ... WHERE o.user_id = %s
UserOrdersRows(e, user_id) ==
    LET S == { [order_id |-> o.order_id, user_id |-> o.user_id,
                restaurant_id |-> o.restaurant_id,
                total_amount |-> o.total_amount, order_date |-> o.order_date,
                restaurant_name |-> restaurant_name(o.restaurant_id)] :
               o \in { p \in VisibleOrders(e) :
                         p.user_id = user_id /\ p.restaurant_id \in Restaurants } }
    IN OrderByDateDesc(S)

\* The items read from orders LEFT JOIN order_items: an order without items
\* yields one row of NULLs.
OrderItemsRowsOuter(e, order_id) ==
    LET joined(r) == r.order_id = order_id /\ r.item_id \in MenuItems
        named(r) == [order_id |-> r.order_id, item_id |-> r.item_id,
                     quantity |-> r.quantity, item_price |-> r.item_price,
                     item_name |-> item_name(r.item_id)]
        picked == SelectSeq(VisibleItems(e), joined)
    IN IF picked = <<>> /\ \E o \in VisibleOrders(e) : o.order_id = order_id
       THEN <<[order_id |-> order_id, item_id |-> 0, quantity |-> 0,
               item_price |-> 0, item_name |-> "NULL"]>>
       ELSE [i \in DOMAIN picked |-> named(picked[i])]

\* SELECT oi.*, mi.name ... JOIN menu_items mi ... WHERE oi.order_id = %s
OrderItemsRows(e, order_id) ==
    LET joined(r) == r.order_id = order_id /\ r.item_id \in MenuItems
        named(r) == [order_id |-> r.order_id, item_id |-> r.item_id,
                     quantity |-> r.quantity, item_price |-> r.item_price,
                     item_name |-> item_name(r.item_id)]
        picked == SelectSeq(VisibleItems(e), joined)
    IN [i \in DOMAIN picked |-> named(picked[i])]

\* Table menu_items; price in thousandths.
MenuTable ==
    { [item_id |-> 1, name |-> item_name(1), price |-> 10000, restaurant_id |-> 3,
       is_available |-> TRUE],
      [item_id |-> 2, name |-> item_name(2), price |-> 4996, restaurant_id |-> 3,
       is_available |-> TRUE],
      [item_id |-> 6, name |-> item_name(6), price |-> 2504, restaurant_id |-> 4,
       is_available |-> TRUE] }

\* A set of rows as a row list, by ascending key.
RECURSIVE ById(_)
ById(S) ==
    IF S = {} THEN <<>>
    ELSE LET r == CHOOSE x \in S : \A y \in S : x.item_id <= y.item_id
         IN <<r>> \o ById(S \ {r})

\* The rows of restaurants, with the key under item_id and no price.
RestaurantRows ==
    ById({ [item_id |-> r, name |-> restaurant_name(r), price |-> 0,
            restaurant_id |-> r, is_available |-> TRUE] : r \in Restaurants })

\* The rows of menu_items of one restaurant.
MenuRows(restaurant_id) ==
    ById({ m \in MenuTable : m.restaurant_id = restaurant_id })

\* SELECT * FROM users WHERE username = %s
UserRows(e, username) ==
    IF username \in VisibleUsers(e) THEN <<[username |-> username]>> ELSE <<>>

\* A result set that is handed out once: repeating the call that was made
\* last finds it drained.
fetchallOnce(e, q, arg) ==
    IF last[e].path = "read" /\ last[e].query = q.text /\ last[e].arg = arg
    THEN <<>>
    ELSE CASE q.table = "users" -> UserRows(e, arg)
           [] q.table = "orders" -> UserOrdersRows(e, arg)
           [] q.table = "order_items" -> OrderItemsRows(e, arg)
           [] q.table = "restaurants" -> RestaurantRows
           [] q.table = "menu_items" -> MenuRows(arg)

\* cursor.fetchall() after a read statement.
fetchall(e, q, arg) ==
    CASE q.table = "users" -> UserRows(e, arg)
      [] q.table = "orders" -> UserOrdersRows(e, arg)
      [] q.table = "order_items" -> OrderItemsRows(e, arg)
      [] q.table = "restaurants" -> RestaurantRows
      [] q.table = "menu_items" -> MenuRows(arg)

\* The transaction after an executed write statement.
Executed(t, q, arg) ==
    IF q.verb = "insert" /\ q.table = "users"
    THEN [t EXCEPT !.users = @ \cup {arg}]
    ELSE t

\* users.username is a unique key: storage rejects a second row of a name.
Accepts(e, q, arg) ==
    q.verb = "insert" /\ q.table = "users" => arg \notin VisibleUsers(e)

\* A finally block that never closes the cursor.
FinallyLeaks(open, cursor) == open

\* finally: `if cursor is not None: cursor.close()`
Finally(open, cursor) == IF cursor # 0 THEN open - 1 ELSE open

(***************************************************************************)
(* execute_query                                                           *)
(***************************************************************************)
\* Callers that test the result for truth: an empty list becomes None.
ShapedTruthy(op, result) ==
    CASE op = "get_user_by_username" ->
            IF result.kind = "rows" /\ result.rows # <<>>
            THEN Row(result.rows[1]) ELSE None
      [] op = "create_user" ->
            IF result.kind = "True" THEN True ELSE False
      [] op \in {"get_user_orders", "get_order_items"} ->
            IF result.kind = "rows" /\ result.rows # <<>> THEN result ELSE None
      [] OTHER -> result

\* How each caller of execute_query shapes its result.
Shaped(op, result) ==
    CASE op = "get_user_by_username" ->
            IF result.kind = "rows" /\ result.rows # <<>>
            THEN Row(result.rows[1]) ELSE None
      [] op = "create_user" ->
            IF result.kind = "True" THEN True ELSE False
      [] op \in {"get_user_orders", "get_order_items"} ->
            IF result.kind = "rows" THEN result ELSE None
      [] OTHER -> result

\* The call returns `result` having opened `cursor` cursors and sent `sent`
\* statements.
Returned(e, op, q, arg, result, path, cursor, sent) ==
    /\ last' = [last EXCEPT ![e] =
                  [Call(op, Shaped(op, result), path, cursor, sent, 0, <<>>, arg, "")
                   EXCEPT !.result = result, !.query = q.text]]
    /\ cursors' = [cursors EXCEPT ![e] = Finally(@ + cursor, cursor)]
    /\ acked' = IF op = "create_user" /\ Shaped(op, result) = True
                THEN acked \cup {arg} ELSE acked
    /\ UNCHANGED <<returned, stale>>

ConnectionLost(e) ==
    /\ connection' = [connection EXCEPT ![e] = "closed"]
    /\ txn' = [txn EXCEPT ![e] = NoTxn]

\* A commit that publishes nothing and leaves the transaction open.
CommitNothing(e, t) ==
    /\ UNCHANGED <<orders, order_items, users>>
    /\ txn' = [txn EXCEPT ![e] = t]

\* A commit that overwrites the tables with the rows of the transaction.
CommitReplaces(e, t) ==
    /\ orders' = t.orders
    /\ order_items' = t.items
    /\ users' = CommittedUsers(t)
    /\ txn' = [txn EXCEPT ![e] = NoTxn]

\* `self.connection.commit()` succeeds for transaction t of executor e.
Commit(e, t) ==
    /\ orders' = CommittedOrders(t)
    /\ order_items' = CommittedItems(t)
    /\ users' = CommittedUsers(t)
    /\ txn' = [txn EXCEPT ![e] = NoTxn]

\* The except branch of execute_query: log and return None.
ExecuteQueryExcept(e, t) == txn' = [txn EXCEPT ![e] = t]

execute_query(e, op, q, arg) ==
    /\ pc[e] = "idle"
    /\ IF ~is_connected(e)
       THEN /\ Returned(e, op, q, arg, None, "noconn", 0, 0)
            /\ UNCHANGED <<orders, order_items, users, connection, txn>>
       ELSE \/ \* cursor() raises: the connection went away
               /\ ConnectionLost(e)
               /\ Returned(e, op, q, arg, None, "cursor_error", 0, 0)
               /\ UNCHANGED <<orders, order_items, users>>
            \/ \* cursor.execute raises: statement rejected
               /\ Returned(e, op, q, arg, None, "execute_error", 1, 1)
               /\ ExecuteQueryExcept(e, txn[e])
               /\ UNCHANGED <<orders, order_items, users, connection>>
            \/ \* cursor.execute raises: connection lost
               /\ ConnectionLost(e)
               /\ Returned(e, op, q, arg, None, "execute_lost", 1, 1)
               /\ UNCHANGED <<orders, order_items, users>>
            \/ \* a read: fetchall, no commit
               /\ IsSelect(q.text)
               /\ Returned(e, op, q, arg, Rows(fetchall(e, q, arg)), "read", 1, 1)
               /\ UNCHANGED <<orders, order_items, users, connection, txn>>
            \/ \* a write: commit
               /\ ~IsSelect(q.text)
               /\ Accepts(e, q, arg)
               /\ \/ /\ Commit(e, Executed(txn[e], q, arg))
                     /\ Returned(e, op, q, arg, True, "write", 1, 2)
                     /\ UNCHANGED connection
                  \/ \* commit raises, the transaction stays open
                     /\ ExecuteQueryExcept(e, Executed(txn[e], q, arg))
                     /\ Returned(e, op, q, arg, None, "commit_error", 1, 2)
                     /\ UNCHANGED <<orders, order_items, users, connection>>
                  \/ \* commit raises, connection lost
                     /\ ConnectionLost(e)
                     /\ Returned(e, op, q, arg, None, "commit_lost", 1, 2)
                     /\ UNCHANGED <<orders, order_items, users>>
    /\ UNCHANGED <<nextId, clock, pc, frame, submitted>>

get_user_by_username(e, username) ==
    execute_query(e, "get_user_by_username", UserByUsernameQuery, username)

create_user(e, username) ==
    execute_query(e, "create_user", CreateUserQuery, username)

get_user_orders(e, user_id) ==
    execute_query(e, "get_user_orders", UserOrdersQuery, user_id)

get_order_items(e, order_id) ==
    execute_query(e, "get_order_items", OrderItemsQuery, order_id)

\* The two reads the application asks its manager for by name.
\* DatabaseManager of db_manager.py does not define them.
get_restaurants(e) ==
    execute_query(e, "get_restaurants", RestaurantsQuery, 0)

get_menu_items(e, restaurant_id) ==
    execute_query(e, "get_menu_items", MenuItemsQuery, restaurant_id)

(***************************************************************************)
(* create_order, one action per statement it sends                         *)
(***************************************************************************)
\* An insert that leaves total_amount to the column default.
OrderRowNoTotal(id, date, user_id, restaurant_id, total_amount) ==
    [order_id |-> id, user_id |-> user_id, restaurant_id |-> restaurant_id,
     total_amount |-> 0, order_date |-> date]

\* The row of `INSERT INTO orders (...)`; order_id and order_date are
\* assigned by storage.
OrderRow(id, date, user_id, restaurant_id, total_amount) ==
    [order_id |-> id, user_id |-> user_id, restaurant_id |-> restaurant_id,
     total_amount |-> total_amount, order_date |-> date]


\* The parameters of `INSERT INTO order_items (...)` for one item.
ItemRow(order_id, item) ==
    [order_id |-> order_id, item_id |-> int(item.item_id),
     quantity |-> int(item.quantity), item_price |-> float(item.price)]

\* Building the parameter tuple raises KeyError or ValueError.
ItemRaises(item) ==
    ~(CanConvert(item.item_id) /\ CanConvert(item.quantity) /\ CanConvert(item.price))

\* A rollback that is never sent.
RollbackSkipped(e) == UNCHANGED txn

\* `self.connection.rollback()`
Rollback(e) == txn' = [txn EXCEPT ![e] = NoTxn]

\* `except Error`: roll back, swallowing a failure of the rollback itself
\* (the connection is gone), and return None.
CreateOrderExcept(e, lost) ==
    IF lost THEN ConnectionLost(e) ELSE Rollback(e) /\ UNCHANGED connection

\* An except branch whose failed rollback escapes the call.
CreateOrderExceptEscapes(e, ret, path, rb, open, cursor, f) ==
    /\ last' = [last EXCEPT ![e] =
                  [Call("create_order", IF rb = "failed" THEN Raised ELSE ret, path,
                        cursor, f.sent, f.order_id, f.items, f.user_id, "")
                   EXCEPT !.rollback = rb]]
    /\ cursors' = [cursors EXCEPT ![e] = Finally(open, cursor)]
    /\ pc' = [pc EXCEPT ![e] = "idle"]
    /\ frame' = [frame EXCEPT ![e] = NoFrame]
    /\ returned' = IF ret.kind = "id"
                   THEN Append(returned, [order_id |-> ret.id, user_id |-> f.user_id,
                                          restaurant_id |-> f.restaurant_id,
                                          n |-> Len(f.items)])
                   ELSE returned
    /\ UNCHANGED <<acked, stale>>

\* create_order leaves through its finally block.
CreateOrderReturned(e, ret, path, rb, open, cursor, f) ==
    /\ last' = [last EXCEPT ![e] =
                  [Call("create_order", ret, path, cursor, f.sent, f.order_id,
                        f.items, f.user_id, "")
                   EXCEPT !.rollback = rb]]
    /\ cursors' = [cursors EXCEPT ![e] = Finally(open, cursor)]
    /\ pc' = [pc EXCEPT ![e] = "idle"]
    /\ frame' = [frame EXCEPT ![e] = NoFrame]
    /\ returned' = IF ret.kind = "id"
                   THEN Append(returned, [order_id |-> ret.id, user_id |-> f.user_id,
                                          restaurant_id |-> f.restaurant_id,
                                          n |-> Len(f.items)])
                   ELSE returned
    /\ UNCHANGED <<acked, stale>>

\* Storage time passed since the previous insert into orders: none, or one
\* unit of order_date.  (Only differences of order_date are ever compared.)
Ticks == IF nextId = 1 THEN {0} ELSE {0, 1}

\* The call is in flight: its outcome is not known yet.
Running(f) ==
    [Call("create_order", None, "running", 1, 0, f.order_id, f.items, f.user_id, "")
     EXCEPT !.rollback = ""]

\* An id computed as one more than the number of committed orders.
lastrowidCounted == Cardinality(orders) + 1

\* `cursor.lastrowid` after the insert into orders: the AUTO_INCREMENT value
\* storage gives the new row.
lastrowid == nextId

\* Entry, cursor() and the insert into orders.
CreateOrderBegin(e, user_id, restaurant_id, items, total_amount) ==
    LET f == [NoFrame EXCEPT !.user_id = user_id, !.restaurant_id = restaurant_id,
                             !.items = items, !.total_amount = total_amount]
        f1 == [f EXCEPT !.sent = 1]
    IN
    /\ pc[e] = "idle"
    /\ IF ~is_connected(e)
       THEN /\ CreateOrderReturned(e, None, "noconn", "", cursors[e], 0, f)
            /\ UNCHANGED <<orders, order_items, users, nextId, clock, connection,
                           txn, submitted>>
       ELSE \/ \* cursor() raises: the connection went away
               /\ CreateOrderExcept(e, TRUE)
               /\ CreateOrderReturned(e, None, "cursor_error", "failed", cursors[e], 0, f)
               /\ UNCHANGED <<orders, order_items, users, nextId, clock, submitted>>
            \/ \* storage rejects the order insert
               /\ \E lost \in BOOLEAN :
                    /\ CreateOrderExcept(e, lost)
                    /\ CreateOrderReturned(e, None, "order_rejected",
                                           IF lost THEN "failed" ELSE "ok",
                                           cursors[e] + 1, 1, f1)
               /\ UNCHANGED <<orders, order_items, users, nextId, clock, submitted>>
            \/ \* the order row is pending, order_id = cursor.lastrowid
               /\ \E dt \in Ticks :
                    /\ clock' = clock + dt
                    /\ txn' = [txn EXCEPT ![e].orders = @ \cup
                                 {OrderRow(lastrowid, clock + dt, user_id,
                                           restaurant_id, total_amount)}]
               /\ nextId' = nextId + 1
               /\ submitted' = (lastrowid :> Len(items)) @@ submitted
               /\ cursors' = [cursors EXCEPT ![e] = @ + 1]
               /\ pc' = [pc EXCEPT ![e] = "items"]
               /\ frame' = [frame EXCEPT ![e] = [f1 EXCEPT !.order_id = lastrowid]]
               /\ last' = [last EXCEPT ![e] = Running([f EXCEPT !.order_id = lastrowid])]
               /\ UNCHANGED <<orders, order_items, users, connection, acked, returned, stale>>

\* One turn of `for item in items`.
CreateOrderItem(e) ==
    LET f == frame[e]
        item == f.items[f.k + 1]
        f1 == [f EXCEPT !.sent = @ + 1]
    IN
    /\ pc[e] = "items"
    /\ f.k < Len(f.items)
    /\ IF ItemRaises(item)
       THEN \* KeyError / ValueError is not a mysql.connector.Error: no except
            \* branch runs, only finally
            /\ CreateOrderReturned(e, Raised, "item_raised", "", cursors[e], 1, f)
            /\ UNCHANGED <<orders, order_items, users, nextId, clock, connection,
                           txn, submitted>>
       ELSE \/ \* storage rejects the item insert
               /\ \E lost \in BOOLEAN :
                    /\ CreateOrderExcept(e, lost)
                    /\ CreateOrderReturned(e, None, "item_rejected",
                                           IF lost THEN "failed" ELSE "ok",
                                           cursors[e], 1, f1)
               /\ UNCHANGED <<orders, order_items, users, nextId, clock, submitted>>
            \/ \* the item row is pending
               /\ txn' = [txn EXCEPT ![e].items =
                            Append(@, ItemRow(f.order_id, item))]
               /\ frame' = [frame EXCEPT ![e] = [f1 EXCEPT !.k = @ + 1]]
               /\ UNCHANGED <<orders, order_items, users, nextId, clock, connection,
                              cursors, pc, last, submitted, acked, returned, stale>>

\* A commit step that refuses an order without items.
CreateOrderCommitChecked(e) ==
    LET f == frame[e] IN
    /\ pc[e] = "items"
    /\ f.k = Len(f.items)
    /\ \/ /\ f.items # <<>>
          /\ Commit(e, txn[e])
          /\ CreateOrderReturned(e, OrderId(f.order_id), "committed", "",
                                cursors[e], 1, f)
          /\ UNCHANGED connection
       \/ /\ \E lost \in BOOLEAN :
               /\ CreateOrderExcept(e, lost)
               /\ CreateOrderReturned(e, None, "commit_rejected",
                                      IF lost THEN "failed" ELSE "ok",
                                      cursors[e], 1, f)
          /\ UNCHANGED <<orders, order_items, users>>
    /\ UNCHANGED <<nextId, clock, submitted>>

\* `self.connection.commit()` and `return int(order_id)`.
CreateOrderCommit(e) ==
    LET f == frame[e] IN
    /\ pc[e] = "items"
    /\ f.k = Len(f.items)
    /\ \/ /\ Commit(e, txn[e])
          /\ CreateOrderReturned(e, OrderId(f.order_id), "committed", "",
                                cursors[e], 1, f)
          /\ UNCHANGED connection
       \/ \* commit raises
          /\ \E lost \in BOOLEAN :
               /\ CreateOrderExcept(e, lost)
               /\ CreateOrderReturned(e, None, "commit_rejected",
                                      IF lost THEN "failed" ELSE "ok",
                                      cursors[e], 1, f)
          /\ UNCHANGED <<orders, order_items, users>>
    /\ UNCHANGED <<nextId, clock, submitted>>

\* One executor used by one caller, one call at a time.
App == 1
\* A second client of the same storage, with a connection of its own.
Other == 2

(***************************************************************************)
(* auth.py and FoodDeliveryApp (tkinter_ui.py).  The window handles one    *)
(* event at a time: a handler runs from its entry to its return, one       *)
(* action per call it makes into a DatabaseManager, before the next event  *)
(* is taken.  The application calls its own manager (App); every function  *)
(* of auth.py builds a manager of its own for the call (Other).            *)
(***************************************************************************)
\* The caps on the quantity of one cart entry, on the entries of the cart
\* and on the orders placed through the application.
MaxQty == 2
MaxCart == 2
MaxCheckouts == 1

\* The manager a handler talks to.
Manager(name) ==
    IF name \in {"authenticate_user", "register_user", "get_user_info"}
    THEN Other ELSE App

\* users.user_id of a users row.
user_id_of(username) == IF username = "alice" THEN 7 ELSE 8

Idle == flow.name = "idle"
At(name, at) == flow.name = name /\ flow.at = at
Enter(name) == flow' = [NoFlow EXCEPT !.name = name, !.at = "begin"]
Goto(at) == flow' = [flow EXCEPT !.at = at]
Return == flow' = NoFlow
Elsewhere == UNCHANGED <<backend, cacheVars, trackerVars>>

\* `if not db.connect(): return`, else go on at `at`.
Dialled(e, at) ==
    IF last'[e].ret = True
    THEN flow' = [flow EXCEPT !.at = at, !.dialled = TRUE]
    ELSE Return

\* `f"${float(price):.2f}"`: thousandths to the cents of the text shown.
Format2f(price) == (price + 5) \div 10

\* `float(str(vals[3]).replace("$", ""))`: the cents of the text as a
\* float (the prices shown here have no hundredths).
ParsePrice(cents) == PyFloat(cents \div 100, (cents % 100) \div 10)

\* The rows of a Treeview: `values=(id, name, ..., fourth column)`.
TreeRow(id, name, text) == [id |-> id, name |-> name, text |-> text]

(* auth.authenticate_user, called by login *)
login(username, password_ok) ==
    /\ Idle /\ screen = "login"
    /\ flow' = [NoFlow EXCEPT !.name = "authenticate_user", !.at = "begin",
                              !.username = username, !.password_ok = password_ok]
    /\ UNCHANGED <<storageVars, current_user, cart, selected_restaurant_id, screen,
                   tree>>
    /\ Elsewhere

AuthenticateConnect ==
    /\ At("authenticate_user", "begin")
    /\ Connect(Other)
    /\ Dialled(Other, "lookup")
    /\ UNCHANGED <<current_user, cart, selected_restaurant_id, screen, tree>>
    /\ Elsewhere

AuthenticateLookup ==
    /\ At("authenticate_user", "lookup")
    /\ get_user_by_username(Other, flow.username)
    /\ flow' = [flow EXCEPT !.at = "close", !.found = last'[Other].ret # None]
    /\ UNCHANGED <<current_user, cart, selected_restaurant_id, screen, tree>>
    /\ Elsewhere

\* Every branch disconnects before it returns; login then records the user
\* and shows the main menu.
AuthenticateClose ==
    /\ At("authenticate_user", "close")
    /\ Disconnect(Other)
    /\ Return
    /\ IF flow.found /\ flow.password_ok
       THEN current_user' = flow.username /\ screen' = "main"
       ELSE UNCHANGED <<current_user, screen>>
    /\ UNCHANGED <<cart, selected_restaurant_id, tree>>
    /\ Elsewhere

(* auth.register_user, called by register *)
register(username) ==
    /\ Idle /\ screen = "login"
    /\ flow' = [NoFlow EXCEPT !.name = "register_user", !.at = "begin",
                              !.username = username]
    /\ UNCHANGED <<storageVars, current_user, cart, selected_restaurant_id, screen,
                   tree>>
    /\ Elsewhere

RegisterConnect ==
    /\ At("register_user", "begin")
    /\ Connect(Other)
    /\ Dialled(Other, "lookup")
    /\ UNCHANGED <<current_user, cart, selected_restaurant_id, screen, tree>>
    /\ Elsewhere

RegisterLookup ==
    /\ At("register_user", "lookup")
    /\ get_user_by_username(Other, flow.username)
    /\ IF last'[Other].ret # None THEN Goto("close") ELSE Goto("create")
    /\ UNCHANGED <<current_user, cart, selected_restaurant_id, screen, tree>>
    /\ Elsewhere

RegisterCreate ==
    /\ At("register_user", "create")
    /\ create_user(Other, flow.username)
    /\ Goto("close")
    /\ UNCHANGED <<current_user, cart, selected_restaurant_id, screen, tree>>
    /\ Elsewhere

RegisterClose ==
    /\ At("register_user", "close")
    /\ Disconnect(Other)
    /\ Return
    /\ UNCHANGED <<current_user, cart, selected_restaurant_id, screen, tree>>
    /\ Elsewhere

(* auth.get_user_info *)
get_user_info(username) ==
    /\ Idle /\ screen = "login"
    /\ flow' = [NoFlow EXCEPT !.name = "get_user_info", !.at = "begin",
                              !.username = username]
    /\ UNCHANGED <<storageVars, current_user, cart, selected_restaurant_id, screen,
                   tree>>
    /\ Elsewhere

UserInfoConnect ==
    /\ At("get_user_info", "begin")
    /\ Connect(Other)
    /\ Dialled(Other, "lookup")
    /\ UNCHANGED <<current_user, cart, selected_restaurant_id, screen, tree>>
    /\ Elsewhere

UserInfoLookup ==
    /\ At("get_user_info", "lookup")
    /\ get_user_by_username(Other, flow.username)
    /\ Goto("close")
    /\ UNCHANGED <<current_user, cart, selected_restaurant_id, screen, tree>>
    /\ Elsewhere

UserInfoClose ==
    /\ At("get_user_info", "close")
    /\ Disconnect(Other)
    /\ Return
    /\ UNCHANGED <<current_user, cart, selected_restaurant_id, screen, tree>>
    /\ Elsewhere

(* FoodDeliveryApp: session and navigation *)
logout ==
    /\ Idle /\ screen = "main"
    /\ current_user' = ""
    /\ cart' = <<>>
    /\ selected_restaurant_id' = 0
    /\ screen' = "login"
    /\ tree' = {}
    /\ UNCHANGED <<storageVars, flow>>
    /\ Elsewhere

show_main_menu ==
    /\ Idle /\ screen \in {"restaurants", "cart"}
    /\ screen' = "main"
    /\ tree' = {}
    /\ UNCHANGED <<storageVars, current_user, cart, selected_restaurant_id, flow>>
    /\ Elsewhere

(* FoodDeliveryApp.show_restaurants *)
show_restaurants ==
    /\ Idle /\ screen \in {"main", "menu"}
    /\ Enter("show_restaurants")
    /\ UNCHANGED <<storageVars, current_user, cart, selected_restaurant_id, screen,
                   tree>>
    /\ Elsewhere

\* `if not self.require_db(): return`
ShowRestaurantsConnect ==
    /\ At("show_restaurants", "begin")
    /\ Connect(App)
    /\ Dialled(App, "hasattr")
    /\ UNCHANGED <<current_user, cart, selected_restaurant_id, screen, tree>>
    /\ Elsewhere

\* `if not hasattr(self.db, 'get_restaurants'): showerror(...); return`
ShowRestaurantsHasattr ==
    /\ At("show_restaurants", "hasattr")
    /\ IF "get_restaurants" \in backend THEN Goto("list") ELSE Return
    /\ UNCHANGED <<storageVars, current_user, cart, selected_restaurant_id, screen,
                   tree>>
    /\ Elsewhere

\* `restaurants = self.db.get_restaurants() or []`, shown in the list.
ShowRestaurantsList ==
    /\ At("show_restaurants", "list")
    /\ get_restaurants(App)
    /\ Goto("close")
    /\ screen' = "restaurants"
    /\ tree' = LET rows == last'[App].ret.rows
               IN { TreeRow(rows[i].item_id, rows[i].name, 0) : i \in DOMAIN rows }
    /\ UNCHANGED <<current_user, cart, selected_restaurant_id>>
    /\ Elsewhere

ShowRestaurantsClose ==
    /\ At("show_restaurants", "close")
    /\ Disconnect(App)
    /\ Return
    /\ UNCHANGED <<current_user, cart, selected_restaurant_id, screen, tree>>
    /\ Elsewhere

\* View Menu: `self.selected_restaurant_id = int(vals[0])`, then show_menu().
on_select(row) ==
    /\ Idle /\ screen = "restaurants" /\ row \in tree
    /\ selected_restaurant_id' = row.id
    /\ Enter("show_menu")
    /\ UNCHANGED <<storageVars, current_user, cart, screen, tree>>
    /\ Elsewhere

(* FoodDeliveryApp.show_menu *)
\* Without a selection show_menu hands over to show_restaurants.
ShowMenuConnect ==
    /\ At("show_menu", "begin")
    /\ IF selected_restaurant_id = 0
       THEN Enter("show_restaurants") /\ UNCHANGED storageVars
       ELSE Connect(App) /\ Dialled(App, "hasattr")
    /\ UNCHANGED <<current_user, cart, selected_restaurant_id, screen, tree>>
    /\ Elsewhere

\* `if not hasattr(self.db, 'get_menu_items'): showerror(...); return`
ShowMenuHasattr ==
    /\ At("show_menu", "hasattr")
    /\ IF "get_menu_items" \in backend THEN Goto("list") ELSE Return
    /\ UNCHANGED <<storageVars, current_user, cart, selected_restaurant_id, screen,
                   tree>>
    /\ Elsewhere

\* `items = self.db.get_menu_items(self.selected_restaurant_id) or []`; the
\* available ones are shown with their price as text.
ShowMenuList ==
    /\ At("show_menu", "list")
    /\ get_menu_items(App, selected_restaurant_id)
    /\ Goto("close")
    /\ screen' = "menu"
    /\ tree' = LET rows == last'[App].ret.rows
               IN { TreeRow(rows[i].item_id, rows[i].name, Format2f(rows[i].price)) :
                    i \in { j \in DOMAIN rows : rows[j].is_available } }
    /\ UNCHANGED <<current_user, cart, selected_restaurant_id>>
    /\ Elsewhere

ShowMenuClose ==
    /\ At("show_menu", "close")
    /\ Disconnect(App)
    /\ Return
    /\ UNCHANGED <<current_user, cart, selected_restaurant_id, screen, tree>>
    /\ Elsewhere

\* Merge by item_id, else append an entry tagged with the selected
\* restaurant.
Added(row, qty) ==
    IF \E i \in DOMAIN cart : cart[i].item_id = row.id
    THEN LET i == CHOOSE j \in DOMAIN cart :
                     /\ cart[j].item_id = row.id
                     /\ \A k \in 1..(j - 1) : cart[k].item_id # row.id
         IN [cart EXCEPT ![i].qty = @ + qty]
    ELSE Append(cart, [item_id |-> row.id, name |-> row.name,
                       price |-> ParsePrice(row.text), qty |-> qty,
                       restaurant_id |-> selected_restaurant_id])

\* Add to Cart on the menu screen, then show_menu() again.
add_to_cart(row, qty) ==
    /\ Idle /\ screen = "menu" /\ row \in tree
    /\ \A i \in DOMAIN Added(row, qty) : Added(row, qty)[i].qty <= MaxQty
    /\ Len(Added(row, qty)) <= MaxCart
    /\ cart' = Added(row, qty)
    /\ Enter("show_menu")
    /\ UNCHANGED <<storageVars, current_user, selected_restaurant_id, screen, tree>>
    /\ Elsewhere

(* FoodDeliveryApp.show_cart *)
show_cart ==
    /\ Idle /\ screen \in {"main", "menu"}
    /\ screen' = "cart"
    /\ tree' = {}
    /\ UNCHANGED <<storageVars, current_user, cart, selected_restaurant_id, flow>>
    /\ Elsewhere

\* The first entry of that name is deleted.
remove_selected(name) ==
    /\ Idle /\ screen = "cart"
    /\ \E i \in DOMAIN cart :
          /\ cart[i].name = name
          /\ \A k \in 1..(i - 1) : cart[k].name # name
          /\ cart' = SubSeq(cart, 1, i - 1) \o SubSeq(cart, i + 1, Len(cart))
    /\ UNCHANGED <<storageVars, current_user, selected_restaurant_id, screen, tree,
                   flow>>
    /\ Elsewhere

clear_cart ==
    /\ Idle /\ screen = "cart"
    /\ cart' = <<>>
    /\ UNCHANGED <<storageVars, current_user, selected_restaurant_id, screen, tree,
                   flow>>
    /\ Elsewhere

(* checkout, the handler of the cart screen *)
checkout ==
    /\ Idle /\ screen = "cart"
    /\ Enter("checkout")
    /\ UNCHANGED <<storageVars, current_user, cart, selected_restaurant_id, screen,
                   tree>>
    /\ Elsewhere

\* `if not self.current_user: return`, `if not self.cart: return`,
\* `if not self.require_db(): return`
CheckoutConnect ==
    /\ At("checkout", "begin")
    /\ IF current_user = "" \/ cart = <<>>
       THEN Return /\ UNCHANGED storageVars
       ELSE Connect(App) /\ Dialled(App, "user")
    /\ UNCHANGED <<current_user, cart, selected_restaurant_id, screen, tree>>
    /\ Elsewhere

\* A check that lets every cart pass.
MixedNever(c) == FALSE

\* `any(it['restaurant_id'] != restaurant_id for it in self.cart)`
Mixed(c) == \E i \in DOMAIN c : c[i].restaurant_id # c[1].restaurant_id

\* The user row is looked up; without one, or with a cart of more than one
\* restaurant, the handler disconnects and returns.
CheckoutUser ==
    /\ At("checkout", "user")
    /\ get_user_by_username(App, current_user)
    /\ IF last'[App].ret = None \/ Mixed(cart)
       THEN Goto("close")
       ELSE flow' = [flow EXCEPT !.at = "create",
                                 !.user_id = user_id_of(last'[App].ret.rows[1].username)]
    /\ UNCHANGED <<current_user, cart, selected_restaurant_id, screen, tree>>
    /\ Elsewhere

\* items_payload
Payload(c) ==
    [i \in DOMAIN c |-> [item_id |-> PyInt(c[i].item_id),
                         quantity |-> PyInt(c[i].qty), price |-> c[i].price]]

\* A total that counts every entry once, whatever its quantity.
RECURSIVE CartTotalUnit(_)
CartTotalUnit(c) ==
    IF c = <<>> THEN 0 ELSE float(Head(c).price) + CartTotalUnit(Tail(c))

\* `sum(it['qty'] * it['price'] for it in self.cart)`, in tenths.
RECURSIVE CartTotal(_)
CartTotal(c) ==
    IF c = <<>> THEN 0
    ELSE Head(c).qty * float(Head(c).price) + CartTotal(Tail(c))

\* The position after a step of create_order: still in the call, or back
\* in the handler with its result.  An exception that create_order lets
\* through ends the handler where it stands.
AfterCreateOrder ==
    IF pc'[App] # "idle" THEN Goto("items")
    ELSE IF last'[App].ret = Raised THEN Return
    ELSE flow' = [flow EXCEPT !.at = "close", !.order_id = last'[App].ret]

CheckoutCreate ==
    /\ At("checkout", "create")
    /\ CreateOrderBegin(App, flow.user_id, cart[1].restaurant_id, Payload(cart),
                        CartTotal(cart))
    /\ AfterCreateOrder
    /\ UNCHANGED <<current_user, cart, selected_restaurant_id, screen, tree>>
    /\ Elsewhere

CheckoutItem ==
    /\ At("checkout", "items")
    /\ CreateOrderItem(App)
    /\ AfterCreateOrder
    /\ UNCHANGED <<current_user, cart, selected_restaurant_id, screen, tree>>
    /\ Elsewhere

CheckoutCommit ==
    /\ At("checkout", "items")
    /\ CreateOrderCommit(App)
    /\ AfterCreateOrder
    /\ UNCHANGED <<current_user, cart, selected_restaurant_id, screen, tree>>
    /\ Elsewhere

\* `self.db.disconnect()`, and `if order_id: ... self.cart.clear()`.
CheckoutClose ==
    /\ At("checkout", "close")
    /\ Disconnect(App)
    /\ Return
    /\ cart' = IF flow.order_id.kind = "id" /\ flow.order_id.id # 0
               THEN <<>> ELSE cart
    /\ UNCHANGED <<current_user, selected_restaurant_id, screen, tree>>
    /\ Elsewhere

(***************************************************************************)
(* Cache (cache.py)                                                        *)
(***************************************************************************)
\* Cache(ttl_seconds=...), in ticks of the clock.
ttl_seconds == 2
\* The clock runs from 0 to MaxTime.
MaxTime == 4
\* Stored values: None, and a value that is not None (an empty row list).
CacheValues == {None, Rows(<<>>)}

CacheCall(op, key, ret) == [op |-> op, key |-> key, ret |-> ret, at |-> now]

\* `del self._cache[key]`
Without(c, key) == [k \in DOMAIN c \ {key} |-> c[k]]

\* `time.time() - timestamp > self.ttl_seconds`
Expired(key) == now - cache[key][2] > ttl_seconds

\* The value Cache.get returns for key.
GetValue(key) ==
    IF key \notin DOMAIN cache THEN None
    ELSE IF Expired(key) THEN None
    ELSE cache[key][1]

\* self._cache after Cache.get(key): an expired entry is deleted.
GetEffect(key) ==
    IF key \in DOMAIN cache /\ Expired(key) THEN Without(cache, key) ELSE cache

CacheSet(key, value) ==
    /\ cache' = [k \in DOMAIN cache \cup {key} |->
                   IF k = key THEN <<value, now>> ELSE cache[k]]
    /\ set_at' = [set_at EXCEPT ![key] = [at |-> now, value |-> value]]
    /\ cache_last' = CacheCall("set", key, None)
    /\ UNCHANGED now

CacheGet(key) ==
    /\ cache' = GetEffect(key)
    /\ cache_last' = CacheCall("get", key, GetValue(key))
    /\ UNCHANGED <<now, set_at>>

CacheDelete(key) ==
    /\ cache' = IF key \in DOMAIN cache THEN Without(cache, key) ELSE cache
    /\ set_at' = [set_at EXCEPT ![key] = NotSet]
    /\ cache_last' = CacheCall("delete", key,
                               IF key \in DOMAIN cache THEN True ELSE False)
    /\ UNCHANGED now

CacheClear ==
    /\ cache' = [k \in {} |-> <<None, 0>>]
    /\ set_at' = [k \in CacheKeys |-> NotSet]
    /\ cache_last' = CacheCall("clear", "", None)
    /\ UNCHANGED now

\* `return self.get(key) is not None`
CacheExists(key) ==
    /\ cache' = GetEffect(key)
    /\ cache_last' = CacheCall("exists", key,
                               IF GetValue(key) # None THEN True ELSE False)
    /\ UNCHANGED <<now, set_at>>

\* time.time() advances.
Tick ==
    /\ now < MaxTime
    /\ now' = now + 1
    /\ UNCHANGED <<cache, set_at, cache_last>>

(***************************************************************************)
(* DeliveryTracker (delivery_tracker.py)                                   *)
(***************************************************************************)
TrackedOrders == {1, 2}
Drivers == {5, 6}
\* (lat, lng) pairs.
Locations == {<<0, 0>>, <<1, 1>>}

TrackerCall(op, order_id, ret, next) ==
    [op |-> op, order_id |-> order_id, ret |-> ret,
     known |-> order_id \in DOMAIN deliveries, changed |-> next # deliveries]

\* The dict start_delivery builds.  The time stamps are kept as the keys
\* that are present: started_at always, updated_at and delivered_at once set.
Delivery(order_id, driver_id, loc) ==
    [order_id |-> order_id, driver_id |-> driver_id, status |-> "IN_TRANSIT",
     current_lat |-> loc[1], current_lng |-> loc[2],
     updated_at |-> FALSE, delivered_at |-> FALSE]

Started(order_id, driver_id, loc) ==
    [o \in DOMAIN deliveries \cup {order_id} |->
        IF o = order_id THEN Delivery(order_id, driver_id, loc) ELSE deliveries[o]]

start_delivery(order_id, driver_id, loc) ==
    /\ deliveries' = Started(order_id, driver_id, loc)
    /\ tracker_last' = TrackerCall("start_delivery", order_id,
                                   Row(Delivery(order_id, driver_id, loc)),
                                   Started(order_id, driver_id, loc))
    /\ UNCHANGED delivered

Located(order_id, loc) ==
    IF order_id \in DOMAIN deliveries
    THEN [deliveries EXCEPT ![order_id].current_lat = loc[1],
                            ![order_id].current_lng = loc[2],
                            ![order_id].updated_at = TRUE]
    ELSE deliveries

update_location(order_id, loc) ==
    /\ deliveries' = Located(order_id, loc)
    /\ tracker_last' = TrackerCall("update_location", order_id,
                                   IF order_id \in DOMAIN deliveries
                                   THEN True ELSE False,
                                   Located(order_id, loc))
    /\ UNCHANGED delivered

Completed(order_id) ==
    IF order_id \in DOMAIN deliveries
    THEN [deliveries EXCEPT ![order_id].status = "DELIVERED",
                            ![order_id].delivered_at = TRUE]
    ELSE deliveries

complete_delivery(order_id) ==
    /\ deliveries' = Completed(order_id)
    /\ delivered' = IF order_id \in DOMAIN deliveries
                    THEN delivered \cup {order_id} ELSE delivered
    /\ tracker_last' = TrackerCall("complete_delivery", order_id,
                                   IF order_id \in DOMAIN deliveries
                                   THEN True ELSE False,
                                   Completed(order_id))

get_delivery(order_id) ==
    /\ tracker_last' = TrackerCall("get_delivery", order_id,
                                   IF order_id \in DOMAIN deliveries
                                   THEN Row(deliveries[order_id]) ELSE None,
                                   deliveries)
    /\ UNCHANGED <<deliveries, delivered>>

(***************************************************************************)
(* Specifications                                                          *)
(***************************************************************************)
\* A step of the storage core leaves the application, the cache and the
\* tracker as they are.
OnlyStorage == UNCHANGED <<uiVars, cacheVars, trackerVars>>
OnlyCache == UNCHANGED <<storageVars, uiVars, trackerVars>>
OnlyTracker == UNCHANGED <<storageVars, uiVars, cacheVars>>
Next ==
    \/ Connect(App) /\ OnlyStorage
    \/ Disconnect(App) /\ OnlyStorage
    \/ \E n \in Usernames : get_user_by_username(App, n) /\ OnlyStorage
    \/ \E n \in Usernames : create_user(App, n) /\ OnlyStorage
    \/ \E u \in UserIds : get_user_orders(App, u) /\ OnlyStorage
    \/ \E i \in 1..MaxOrders : get_order_items(App, i) /\ OnlyStorage
    \/ /\ nextId <= MaxOrders
       /\ \E u \in UserIds, r \in RestaurantIds, items \in ItemLists, t \in Totals :
             /\ t = LineTotal(<<ItemA, ItemB>>) \/ items = <<ItemA, ItemB>>
             /\ CreateOrderBegin(App, u, r, items, t)
       /\ OnlyStorage
    \/ CreateOrderItem(App) /\ OnlyStorage
    \/ CreateOrderCommit(App) /\ OnlyStorage

Spec == Init /\ [][Next]_vars

\* A create_order call of App in flight while Other, a second client with a
\* connection of its own, reads.
ConcurrentItemLists == { <<ItemA, ItemB>>, <<ItemA, ItemNoQty>> }

NextConcurrent ==
    \/ \E e \in Executors : Connect(e) /\ OnlyStorage
    \/ \E n \in Usernames : create_user(App, n) /\ OnlyStorage
    \/ \E u \in UserIds : get_user_orders(Other, u) /\ OnlyStorage
    \/ \E i \in 1..MaxOrders : get_order_items(Other, i) /\ OnlyStorage
    \/ /\ nextId <= MaxOrders
       /\ \E u \in UserIds, r \in RestaurantIds, items \in ConcurrentItemLists :
             CreateOrderBegin(App, u, r, items, LineTotal(items))
       /\ OnlyStorage
    \/ CreateOrderItem(App) /\ OnlyStorage
    \/ CreateOrderCommit(App) /\ OnlyStorage

SpecConcurrent == Init /\ [][NextConcurrent]_vars

\* The order history: orders of two users at two restaurants, placed and
\* read back over one executor.
HistoryUserIds == {7, 8}
HistoryCarts ==
    { [user_id |-> 7, restaurant_id |-> 3, items |-> <<ItemA, ItemB>>],
      [user_id |-> 7, restaurant_id |-> 4, items |-> <<>>],
      [user_id |-> 8, restaurant_id |-> 3, items |-> <<ItemB>>] }

NextHistory ==
    \/ Connect(App) /\ OnlyStorage
    \/ \E u \in HistoryUserIds : get_user_orders(App, u) /\ OnlyStorage
    \/ \E i \in 1..(MaxHistory + 1) : get_order_items(App, i) /\ OnlyStorage
    \/ /\ nextId <= MaxHistory
       /\ \E c \in HistoryCarts :
             CreateOrderBegin(App, c.user_id, c.restaurant_id, c.items,
                              LineTotal(c.items))
       /\ OnlyStorage
    \/ CreateOrderItem(App) /\ OnlyStorage
    \/ CreateOrderCommit(App) /\ OnlyStorage

SpecHistory == Init /\ [][NextHistory]_vars

\* The statements that go through execute_query, over one executor.
StatementUsers == {"alice", "bob"}

NextStatements ==
    \/ Connect(App) /\ OnlyStorage
    \/ Disconnect(App) /\ OnlyStorage
    \/ \E n \in StatementUsers : get_user_by_username(App, n) /\ OnlyStorage
    \/ \E n \in StatementUsers : create_user(App, n) /\ OnlyStorage
    \/ \E u \in UserIds : get_user_orders(App, u) /\ OnlyStorage
    \/ \E i \in 1..MaxOrders : get_order_items(App, i) /\ OnlyStorage
    \/ \E q \in RawQueries, n \in StatementUsers :
          execute_query(App, "execute_query", q, n) /\ OnlyStorage

SpecStatements == Init /\ [][NextStatements]_vars

\* Two clients of the same storage, each placing orders over a connection of
\* its own.
WriterCarts ==
    { [user_id |-> 7, restaurant_id |-> 3, items |-> <<ItemA, ItemB>>],
      [user_id |-> 8, restaurant_id |-> 4, items |-> <<ItemB>>] }

NextWriters ==
    \/ \E e \in Executors : Connect(e) /\ OnlyStorage
    \/ /\ nextId <= MaxOrders
       /\ \E e \in Executors, c \in WriterCarts :
             CreateOrderBegin(e, c.user_id, c.restaurant_id, c.items,
                              LineTotal(c.items))
       /\ OnlyStorage
    \/ \E e \in Executors : CreateOrderItem(e) /\ OnlyStorage
    \/ \E e \in Executors : CreateOrderCommit(e) /\ OnlyStorage

SpecWriters == Init /\ [][NextWriters]_vars

\* The application in use by one person: a manager that provides the two
\* optional reads, or the one of db_manager.py, which does not.
Backends == { {}, {"get_restaurants", "get_menu_items"} }
InitBackends ==
    /\ orders = {}
    /\ order_items = <<>>
    /\ users = {}
    /\ nextId = 1
    /\ clock = 0
    /\ connection = [e \in Executors |-> "None"]
    /\ txn = [e \in Executors |-> NoTxn]
    /\ cursors = [e \in Executors |-> 0]
    /\ pc = [e \in Executors |-> "idle"]
    /\ frame = [e \in Executors |-> NoFrame]
    /\ last = [e \in Executors |-> NoCall]
    /\ submitted = [i \in {} |-> 0]
    /\ acked = {}
    /\ returned = <<>>
    /\ stale = [e \in Executors |-> FALSE]
    /\ InitApp
    /\ backend \in Backends
    /\ InitCache
    /\ InitTracker

NextApp ==
    \/ \E n \in Usernames, ok \in BOOLEAN : login(n, ok)
    \/ AuthenticateConnect
    \/ AuthenticateLookup
    \/ AuthenticateClose
    \/ \E n \in Usernames : register(n)
    \/ RegisterConnect
    \/ RegisterLookup
    \/ RegisterCreate
    \/ RegisterClose
    \/ \E n \in Usernames : get_user_info(n)
    \/ UserInfoConnect
    \/ UserInfoLookup
    \/ UserInfoClose
    \/ logout
    \/ show_main_menu
    \/ show_restaurants
    \/ ShowRestaurantsConnect
    \/ ShowRestaurantsHasattr
    \/ ShowRestaurantsList
    \/ ShowRestaurantsClose
    \/ \E row \in tree : on_select(row)
    \/ ShowMenuConnect
    \/ ShowMenuHasattr
    \/ ShowMenuList
    \/ ShowMenuClose
    \/ \E row \in tree, qty \in 1..MaxQty : add_to_cart(row, qty)
    \/ show_cart
    \/ \E row \in MenuTable : remove_selected(row.name)
    \/ clear_cart
    \/ nextId <= MaxCheckouts /\ checkout
    \/ CheckoutConnect
    \/ CheckoutUser
    \/ CheckoutCreate
    \/ CheckoutItem
    \/ CheckoutCommit
    \/ CheckoutClose

SpecApp == InitBackends /\ [][NextApp]_vars

\* One Cache under its calls and the passing of time.
NextCache ==
    \/ \E k \in CacheKeys, v \in CacheValues : CacheSet(k, v) /\ OnlyCache
    \/ \E k \in CacheKeys : CacheGet(k) /\ OnlyCache
    \/ \E k \in CacheKeys : CacheDelete(k) /\ OnlyCache
    \/ CacheClear /\ OnlyCache
    \/ \E k \in CacheKeys : CacheExists(k) /\ OnlyCache
    \/ Tick /\ OnlyCache

SpecCache == Init /\ [][NextCache]_vars

\* One DeliveryTracker under its calls.
NextTracker ==
    \/ \E o \in TrackedOrders, d \in Drivers, l \in Locations :
          start_delivery(o, d, l) /\ OnlyTracker
    \/ \E o \in TrackedOrders, l \in Locations :
          update_location(o, l) /\ OnlyTracker
    \/ \E o \in TrackedOrders : complete_delivery(o) /\ OnlyTracker
    \/ \E o \in TrackedOrders : get_delivery(o) /\ OnlyTracker

SpecTracker == Init /\ [][NextTracker]_vars

(***************************************************************************)
(* Properties                                                              *)
(***************************************************************************)
Rejected == {"cursor_error", "order_rejected", "item_rejected", "commit_rejected"}
DataOps == {"create_order", "get_user_by_username", "create_user",
            "get_user_orders", "get_order_items"}

ItemsOf(rows, id) == SelectSeq(rows, LAMBDA r : r.order_id = id)

\* C1: the committed storage never holds an order row written by a
\* create_order call together with fewer order_items rows than that call was
\* given: the order row and all N item rows become visible together or not
\* at all.
C1_Atomicity ==
    \A o \in orders : Len(ItemsOf(order_items, o.order_id)) = submitted[o.order_id]

\* C5: every create_order call ends by returning an order id or None; no
\* exception escapes it.
C5_NoEscape ==
    \A e \in Executors :
        last[e].op = "create_order" => last[e].ret.kind \in {"id", "None"}

\* C9: when no call is in flight on an executor, every cursor its calls
\* opened is closed, whichever way the calls ended; a call in flight holds
\* exactly the one cursor it opened.
C9_CursorRelease ==
    \A e \in Executors :
        /\ pc[e] = "idle" => cursors[e] = 0
        /\ pc[e] = "items" => cursors[e] = 1

\* A create_order call left through an escaping exception after it had
\* opened its cursor, and another through a rejected insert.
C9_Witness ==
    /\ last[App].op = "create_order"
    /\ last[App].ret = Raised
    /\ last[App].opened = 1
    /\ pc[App] = "idle"
    /\ cursors[App] = 0

\* What is left of a rejected create_order attempt.
C2_NothingLeft(e) ==
    LET c == last[e] IN
    (c.op = "create_order" /\ c.path \in Rejected) =>
        /\ c.ret = None
        /\ c.rollback \in {"ok", "failed"}
        /\ txn[e] = NoTxn
        /\ \A r \in Executors :
             /\ \A o \in VisibleOrders(r) : o.order_id # c.order_id
             /\ ItemsOf(VisibleItems(r), c.order_id) = <<>>
             /\ OrderItemsRows(r, c.order_id) = <<>>

C2_StorageKept ==
    \A e \in Executors :
        (last'[e] # last[e] /\ last'[e].op = "create_order"
                            /\ last'[e].path \in Rejected)
        => <<orders, order_items, users>>' = <<orders, order_items, users>>

\* C2: a create_order call in which storage rejects the order insert, an
\* item insert or the commit returns None after rolling back: nothing of
\* the attempt stays pending or is readable on any connection, and the step
\* leaves the committed storage exactly as it was.
C2_RollbackOnReject ==
    /\ [](\A e \in Executors : C2_NothingLeft(e))
    /\ [][C2_StorageKept]_vars

\* The second of two item inserts was rejected after the order row and the
\* first item row were pending, and the rollback went through.
C2_Witness ==
    /\ last[App].op = "create_order"
    /\ last[App].path = "item_rejected"
    /\ last[App].rollback = "ok"
    /\ Len(last[App].items) = 2
    /\ last[App].sent = 3
    /\ last[App].order_id = 2
    /\ orders # {}

\* C3 (as claimed): a create_order call that returns an order id returns the
\* id storage assigned, and get_order_items for it then returns exactly one
\* row per submitted item, with the submitted item id, quantity and price,
\* in the submitted order.
AsSubmitted(row, item) ==
    /\ float(item.item_id) = row.item_id * 10
    /\ float(item.quantity) = row.quantity * 10
    /\ float(item.price) = row.item_price

C3_CreateThenRead ==
    \A e \in Executors :
        LET c == last[e]
            rows == OrderItemsRows(e, c.order_id)
        IN (c.op = "create_order" /\ c.ret.kind = "id") =>
              /\ c.ret.id = c.order_id
              /\ Len(rows) = Len(c.items)
              /\ \A i \in DOMAIN rows : AsSubmitted(rows[i], c.items[i])

\* Between the order insert and the commit or rollback.
InFlight(w) == pc[w] = "items"

HasOrder(rows, id) == \E i \in DOMAIN rows : rows[i].order_id = id

C4_View(w, r) ==
    LET id == frame[w].order_id
        seen == \E u \in UserIds : HasOrder(UserOrdersRows(r, u), id)
        items == OrderItemsRows(r, id)
    IN InFlight(w) =>
          \/ ~seen /\ items = <<>>
          \/ seen /\ Len(items) = Len(frame[w].items)

C4_Read(w, r) ==
    (InFlight(w) /\ last'[r] # last[r]
                 /\ last'[r].op \in {"get_user_orders", "get_order_items"})
    => ~HasOrder(last'[r].ret.rows, frame[w].order_id)

\* C4: while a create_order call is in flight on one connection, a reader on
\* another executor sees no row of that order, or the order row with all N
\* item rows; whatever get_user_orders or get_order_items returns to it at
\* that point holds no row of the order.
C4_Isolation ==
    /\ [](\A w, r \in Executors : w # r => C4_View(w, r))
    /\ [][\A w, r \in Executors : w # r => C4_Read(w, r)]_vars

\* The order row and the first of two item rows are pending on App while
\* Other, connected, has read the items of that order and an earlier order
\* is committed.
C4_Witness ==
    /\ InFlight(App)
    /\ frame[App].k = 1
    /\ Len(frame[App].items) = 2
    /\ connection[Other] = "open"
    /\ last[Other].op = "get_order_items"
    /\ last[Other].arg = frame[App].order_id
    /\ last[Other].ret = Rows(<<>>)
    /\ orders # {}

\* C6 (as claimed): an execute_query call whose statement or commit raises
\* returns None, and nothing of that call is ever committed, by the call or
\* by a later call on the connection.  (The only write statement is
\* create_user's insert: every committed user row then belongs to a call
\* that returned True.)
Failed == {"cursor_error", "execute_error", "execute_lost", "commit_error",
           "commit_lost"}

C6_NoPartialCommit ==
    /\ \A e \in Executors :
         (last[e].op \in DataOps \ {"create_order"} /\ last[e].path \in Failed)
         => last[e].result = None
    /\ users \subseteq acked

ReadOps == {"get_user_by_username", "get_user_orders", "get_order_items"}

QueryOf(op) ==
    CASE op = "get_user_by_username" -> UserByUsernameQuery
      [] op = "get_user_orders" -> UserOrdersQuery
      [] op = "get_order_items" -> OrderItemsQuery
      [] OTHER -> CreateUserQuery

C7_Framing(e) ==
    LET c == last[e] IN
    /\ c.op \in ReadOps => c.result.kind \in {"rows", "None"}
    /\ c.op = "create_user" => c.result.kind \in {"True", "None"}
    /\ (c.op = "create_user" /\ c.result = True) =>
          /\ c.arg \in users
          /\ \A r \in Executors : UserRows(r, c.arg) # <<>>
    /\ Rows(<<>>) # None

C7_ReadStep(e) ==
    (last'[e] # last[e] /\ last'[e].op \in ReadOps /\ last'[e].result.kind = "rows")
    => /\ last'[e].result.rows = fetchall(e, QueryOf(last'[e].op), last'[e].arg)
       /\ UNCHANGED <<orders, order_items, users, txn>>

\* C7: a successful read through execute_query returns every row storage
\* produced, in storage's order (an empty list is not None), and commits
\* nothing; a successful write returns True with the row committed, so every
\* connection reads it.
C7_ReadAndWrite ==
    /\ [](\A e \in Executors : C7_Framing(e))
    /\ [][\A e \in Executors : C7_ReadStep(e)]_vars

\* A read returned two order rows after a write had been committed.
C7_Witness ==
    /\ last[App].op = "get_user_orders"
    /\ last[App].result.kind = "rows"
    /\ Len(last[App].result.rows) = 2
    /\ "alice" \in acked
    /\ "alice" \in users

\* A data call made without an open connection.
C8_Step(e) ==
    (connection[e] # "open" /\ last'[e] # last[e] /\ last'[e].op \in DataOps)
    => /\ last'[e].ret = IF last'[e].op = "create_user" THEN False ELSE None
       /\ last'[e].result = None
       /\ last'[e].opened = 0
       /\ last'[e].sent = 0
       /\ UNCHANGED <<orders, order_items, users, nextId, clock, connection, txn,
                      cursors, pc>>

\* C8: on an executor without an open connection, create_order and every
\* execute_query caller return their failure value with no cursor opened
\* and no statement sent, and nothing changes in storage.
C8_NoConnection == [][\A e \in Executors : C8_Step(e)]_vars

\* create_order failed for want of a connection after a disconnect, with
\* orders in storage.
C8_Witness ==
    /\ last[App].op = "create_order"
    /\ last[App].path = "noconn"
    /\ last[App].ret = None
    /\ connection[App] = "closed"
    /\ orders # {}

\* C10 (as claimed): connect returns True exactly when the executor holds an
\* open connection after the call.
C10_TrueIffOpen ==
    \A e \in Executors :
        last[e].op = "connect" => (last[e].ret = True <=> connection[e] = "open")

\* The executor right after connect returned.
C10_State(e) ==
    LET c == last[e] IN
    c.op = "connect" =>
        /\ c.ret \in {True, False}
        /\ c.ret = True => connection[e] = "open"
        /\ (c.ret = False /\ c.before # "open") => connection[e] # "open"
        /\ (c.ret = False /\ c.path = "not_connected") => connection[e] # "open"
        /\ (c.ret = False /\ c.path = "error") => connection[e] = c.before

C10_Following(e) ==
    (last[e].op = "connect" /\ connection[e] # "open"
        /\ last'[e] # last[e] /\ last'[e].op \in DataOps)
    => last'[e].ret \in {None, False}

\* C10 (amended): connect returns True or False, never raising; True only
\* with an open connection after the call; False leaves the executor
\* without a usable connection unless an earlier connection was open and the
\* dial raised, in which case that earlier connection stays open; and a
\* data call that follows a connect which left no open connection fails.
C10_Connect ==
    /\ [](\A e \in Executors : C10_State(e))
    /\ [][\A e \in Executors : C10_Following(e)]_vars

\* A re-dial raised while the earlier connection was open: connect returned
\* False and the executor still holds that connection.
C10_Witness ==
    /\ last[App].op = "connect"
    /\ last[App].ret = False
    /\ last[App].before = "open"
    /\ connection[App] = "open"

\* A disconnect step of executor e.
C11_Step(e) ==
    (last'[e] # last[e] /\ last'[e].op = "disconnect") =>
        /\ last'[e].ret = None
        /\ connection'[e] = IF connection[e] = "open" THEN "closed" ELSE connection[e]
        /\ last[e].op = "disconnect" =>
              <<connection, txn, cursors, orders, order_items, users>>'
                  = <<connection, txn, cursors, orders, order_items, users>>
        /\ <<orders, order_items, users>>' = <<orders, order_items, users>>

C11_After(e) ==
    last[e].op = "disconnect" =>
        /\ last[e].ret = None
        /\ connection[e] # "open"
        /\ last[e].before # "open" => connection[e] = last[e].before

\* C11: disconnect closes the connection when it is open and changes
\* nothing otherwise; it returns without raising on a never-connected
\* executor, after a failed connect and a second time in a row, and a
\* second disconnect in a row leaves the state the first one left.
C11_Disconnect ==
    /\ [](\A e \in Executors : C11_After(e))
    /\ [][\A e \in Executors : C11_Step(e)]_vars

\* A second disconnect in a row, after orders were committed over the
\* connection the first one closed.
C11_Witness ==
    /\ last[App].op = "disconnect"
    /\ last[App].before = "closed"
    /\ connection[App] = "closed"
    /\ orders # {}

\* C12: a get_user_orders call whose query went through for a user without
\* any order returns the empty list, which is not the None it returns when
\* the query fails or no connection is open.
C12_EmptyNotFailure ==
    \A e \in Executors :
        LET c == last[e] IN
        c.op = "get_user_orders" =>
            /\ (c.path = "read" /\ \A o \in VisibleOrders(e) : o.user_id # c.arg)
                  => c.ret = Rows(<<>>) /\ c.ret # None
            /\ c.path # "read" => c.ret = None

\* User 8 has no order while user 7 has one; get_user_orders(8) returned [].
C12_Witness ==
    /\ last[App].op = "get_user_orders"
    /\ last[App].arg = 8
    /\ last[App].path = "read"
    /\ last[App].ret = Rows(<<>>)
    /\ \E o \in orders : o.user_id = 7
    /\ connection[App] = "open"

StoredOrder(r) ==
    [order_id |-> r.order_id, user_id |-> r.user_id,
     restaurant_id |-> r.restaurant_id, total_amount |-> r.total_amount,
     order_date |-> r.order_date]

\* C13: the rows get_user_orders(u) returns are orders of u, each with the
\* name of its restaurant, and of two rows with different order_date the
\* later one comes first.
C13_NewestFirst ==
    \A e \in Executors :
        LET c == last[e]
            rows == c.ret.rows
        IN (c.op = "get_user_orders" /\ c.ret.kind = "rows") =>
              /\ \A i \in DOMAIN rows :
                    /\ rows[i].user_id = c.arg
                    /\ StoredOrder(rows[i]) \in VisibleOrders(e)
                    /\ rows[i].restaurant_name = restaurant_name(rows[i].restaurant_id)
              /\ \A i, j \in DOMAIN rows :
                    rows[i].order_date > rows[j].order_date => i < j

\* Three orders of user 7 placed at T1 < T2 < T3, at two restaurants, came
\* back as [T3, T2, T1].
C13_Witness ==
    LET rows == last[App].ret.rows IN
    /\ last[App].op = "get_user_orders"
    /\ last[App].ret.kind = "rows"
    /\ Len(rows) = 3
    /\ rows[1].order_date > rows[2].order_date
    /\ rows[2].order_date > rows[3].order_date
    /\ rows[1].order_id = 3
    /\ rows[3].order_id = 1
    /\ rows[1].restaurant_name # rows[2].restaurant_name

\* C14: a get_order_items call whose query went through returns the empty
\* list both for an id no order has and for an order without item rows,
\* never None and never any other row.
C14_NoItemsNoOrder ==
    \A e \in Executors :
        LET c == last[e] IN
        (c.op = "get_order_items" /\ c.path = "read"
            /\ ItemsOf(VisibleItems(e), c.arg) = <<>>)
        => c.ret = Rows(<<>>) /\ c.ret # None

\* get_order_items returned [] for a committed order that has no items,
\* while another order has items.
C14_Witness ==
    /\ last[App].op = "get_order_items"
    /\ last[App].path = "read"
    /\ last[App].ret = Rows(<<>>)
    /\ \E o \in orders : o.order_id = last[App].arg
    /\ order_items # <<>>

C15_Result(e) ==
    LET c == last[e] IN
    /\ (c.op = "get_user_orders" /\ c.path = "read")
          => c.ret = Rows(UserOrdersRows(e, c.arg))
    /\ (c.op = "get_order_items" /\ c.path = "read")
          => c.ret = Rows(OrderItemsRows(e, c.arg))

C15_Step(e) ==
    (last'[e] # last[e] /\ last'[e].op \in {"get_user_orders", "get_order_items"})
    => /\ UNCHANGED <<orders, order_items, users, txn, nextId, clock>>
       /\ last'[e].path \in {"read", "noconn", "execute_error"}
             => UNCHANGED connection
       /\ connection'[e] # connection[e]
             => /\ connection'[e] = "closed"
                /\ last'[e].path \in {"cursor_error", "execute_lost"}

\* C15: get_user_orders and get_order_items leave the committed storage and
\* the pending transaction as they were, and the connection too unless the
\* driver reported it lost; what a successful call returned is what the
\* same call returns when repeated with no call in between.
C15_IdempotentReads ==
    /\ [](\A e \in Executors : C15_Result(e))
    /\ [][\A e \in Executors : C15_Step(e)]_vars

\* get_user_orders returned two orders of user 7 on an open connection.
C15_Witness ==
    /\ last[App].op = "get_user_orders"
    /\ last[App].path = "read"
    /\ Len(last[App].ret.rows) = 2
    /\ connection[App] = "open"
    /\ Cardinality(orders) = 3

\* C16: a create_order call whose rollback after a failed statement failed
\* too returns None, as it does when the rollback goes through: no order id
\* and no escaping exception.
C16_RollbackFailure ==
    \A e \in Executors :
        (last[e].op = "create_order" /\ last[e].rollback \in {"ok", "failed"})
        => /\ last[e].ret = None
           /\ last[e].path \in Rejected
           /\ pc[e] = "idle"

\* The second item insert failed, the connection was gone and so the
\* rollback failed as well.
C16_Witness ==
    /\ last[App].op = "create_order"
    /\ last[App].path = "item_rejected"
    /\ last[App].rollback = "failed"
    /\ last[App].sent = 3
    /\ last[App].ret = None
    /\ connection[App] = "closed"

C17_Step(e) ==
    (last'[e] # last[e] /\ last'[e].op = "create_order"
                        /\ last'[e].path = "committed")
    => /\ orders \subseteq orders'
       /\ Cardinality(orders') = Cardinality(orders) + 1
       /\ Len(order_items') = Len(order_items) + Len(last'[e].items)
       /\ SubSeq(order_items', 1, Len(order_items)) = order_items
       /\ users' = users
       /\ connection' = connection
       /\ connection[e] = "open"

\* C17 (as claimed): a create_order call that succeeds with N items adds
\* one row to orders and N rows to order_items and leaves every other row,
\* the users and the open connection as they were.
C17_FrameEffect == [][\A e \in Executors : C17_Step(e)]_vars

\* C18: committed order and order item rows are permanent: every step keeps
\* each committed order row as it is and keeps the committed item rows as a
\* prefix of the item rows after the step.
C18_Permanent ==
    [][/\ orders \subseteq orders'
       /\ Len(order_items') >= Len(order_items)
       /\ SubSeq(order_items', 1, Len(order_items)) = order_items]_vars

\* A second order was committed after a first one with its two items, and
\* a user was created since.
C18_Witness ==
    /\ last[App].op = "create_user"
    /\ last[App].ret = True
    /\ Cardinality(orders) = 2
    /\ Len(ItemsOf(order_items, 1)) = 2
    /\ Len(ItemsOf(order_items, 2)) = 2

\* The order row of the call in flight carries the total the caller passed.
C19_Pending(e) ==
    pc[e] = "items" =>
        \E o \in txn[e].orders :
            /\ o.order_id = frame[e].order_id
            /\ o.total_amount = frame[e].total_amount

\* Whatever the total, the call at its commit can return the id or None.
C19_Outcome(e) ==
    (pc[e] = "items" /\ frame[e].k = Len(frame[e].items)) =>
        /\ ENABLED (CreateOrderCommit(e) /\ last'[e].ret = OrderId(frame[e].order_id))
        /\ ENABLED (CreateOrderCommit(e) /\ last'[e].ret = None)

C19_Commit(e) ==
    (last'[e] # last[e] /\ last'[e].op = "create_order"
                        /\ last'[e].path = "committed")
    => \E o \in orders' :
          /\ o.order_id = last'[e].order_id
          /\ o.total_amount = frame[e].total_amount

\* C19: create_order stores the total_amount the caller passed, whether or
\* not it equals the sum of quantity x price over the items, and neither
\* success nor failure is barred by the total.
C19_TrustsTotal ==
    /\ [](\A e \in Executors : C19_Pending(e) /\ C19_Outcome(e))
    /\ [][\A e \in Executors : C19_Commit(e)]_vars

\* An order of two items worth 25.0 was committed with a total of 10.0.
C19_Witness ==
    /\ last[App].op = "create_order"
    /\ last[App].path = "committed"
    /\ last[App].items = <<ItemA, ItemB>>
    /\ LineTotal(last[App].items) = 250
    /\ \E o \in orders : o.order_id = last[App].order_id /\ o.total_amount = 100

\* C20: the ids create_order returned are pairwise different and were
\* assigned by storage; each denotes one committed order row, that of the
\* call it was returned to, and the item rows of that call, all N of them,
\* carry it.
C20_UniqueIds ==
    /\ \A i, j \in DOMAIN returned :
          i # j => returned[i].order_id # returned[j].order_id
    /\ \A i \in DOMAIN returned :
          LET r == returned[i]
              rows == {o \in orders : o.order_id = r.order_id}
          IN /\ r.order_id \in 1..(nextId - 1)
             /\ Cardinality(rows) = 1
             /\ \A o \in rows : /\ o.user_id = r.user_id
                                /\ o.restaurant_id = r.restaurant_id
             /\ Len(ItemsOf(order_items, r.order_id)) = r.n

\* Two calls overlapped on separate connections: the one that inserted its
\* order row second returned first.
C20_Witness ==
    /\ Len(returned) = 2
    /\ returned[1].order_id = 2
    /\ returned[2].order_id = 1
    /\ last[App].path = "committed"
    /\ last[Other].path = "committed"

\* C23: when a create_order call has ended, in whichever way, nothing is
\* pending on its connection, and every committed order and order item row
\* belongs to a call that returned its order id.
C23_NoPendingSurvives ==
    /\ \A e \in Executors :
          (pc[e] = "idle" /\ last[e].op = "create_order") => txn[e] = NoTxn
    /\ \A o \in orders : \E i \in DOMAIN returned : returned[i].order_id = o.order_id
    /\ \A k \in DOMAIN order_items :
          \E i \in DOMAIN returned : returned[i].order_id = order_items[k].order_id

\* C27: a get_user_orders(u) call whose query went through returns every
\* committed order of u, and a get_order_items(id) call one row per
\* order_items row the connection sees stored for id, whether or not the
\* restaurant or the menu item of a row exists in the catalog.
C27_ReadsEveryRow ==
    \A e \in Executors :
        LET c == last[e] IN
        /\ (c.op = "get_user_orders" /\ c.path = "read") =>
              \A o \in orders : o.user_id = c.arg => HasOrder(c.ret.rows, o.order_id)
        /\ (c.op = "get_order_items" /\ c.path = "read") =>
              Len(c.ret.rows) = Len(ItemsOf(VisibleItems(e), c.arg))

\* C26 (as claimed): every committed order has at least one order_items
\* row, and a create_order call given an empty items sequence returns no
\* order id.
C26_NonEmpty ==
    /\ \A o \in orders : ItemsOf(order_items, o.order_id) # <<>>
    /\ \A e \in Executors :
          (last[e].op = "create_order" /\ last[e].path # "running"
              /\ last[e].items = <<>>) => last[e].ret.kind # "id"

\* C26 (amended): create_order does not check that items is non-empty: a
\* call given an empty sequence returns an order id or None, and when its
\* insert and commit go through it returns the id of a committed order row
\* that has no order_items row.
C26_EmptyAccepted ==
    \A e \in Executors :
        LET c == last[e] IN
        /\ (pc[e] = "items" /\ frame[e].items = <<>>) =>
              ENABLED (CreateOrderCommit(e)
                         /\ last'[e].ret = OrderId(frame[e].order_id))
        /\ (c.op = "create_order" /\ c.path # "running" /\ c.items = <<>>) =>
              /\ c.ret.kind \in {"id", "None"}
              /\ c.path \in {"noconn", "cursor_error", "order_rejected",
                             "commit_rejected", "committed"}
              /\ c.path = "committed" =>
                    /\ c.ret = OrderId(c.order_id)
                    /\ \E o \in orders : o.order_id = c.order_id
                    /\ ItemsOf(order_items, c.order_id) = <<>>

\* A call with no items was committed as order 2 and returned its id, next
\* to an order that has items.
C26_Witness ==
    /\ last[App].op = "create_order"
    /\ last[App].items = <<>>
    /\ last[App].ret = OrderId(2)
    /\ \E o \in orders : o.order_id = 2
    /\ ItemsOf(order_items, 2) = <<>>
    /\ ItemsOf(order_items, 1) # <<>>

\* The statement texts that open with SELECT once surrounding whitespace is
\* trimmed and letter case ignored, and those that do not.
C24_Reads ==
    {UserByUsernameQuery.text, UserOrdersQuery.text, OrderItemsQuery.text,
     LowerSelectQuery.text}
C24_Writes == {CreateUserQuery.text, WithSelectQuery.text}
ExecOps == (DataOps \ {"create_order"}) \cup {"execute_query"}

C24_Framing(e) ==
    LET c == last[e] IN
    c.op \in ExecOps =>
        /\ c.query \in C24_Reads \cup C24_Writes
        /\ c.query \in C24_Reads =>
              /\ c.result.kind \in {"rows", "None"}
              /\ c.result.kind = "rows" <=> c.path = "read"
        /\ c.query \in C24_Writes =>
              /\ c.result.kind \in {"True", "None"}
              /\ c.result.kind = "True" <=> c.path = "write"

C24_Step(e) ==
    (last'[e] # last[e] /\ last'[e].op \in ExecOps) =>
        /\ last'[e].query \in C24_Reads =>
              /\ UNCHANGED <<orders, order_items, users>>
              /\ txn'[e] \in {txn[e], NoTxn}
              /\ last'[e].path = "read" => UNCHANGED txn
        /\ (last'[e].query \in C24_Writes /\ last'[e].path = "write") =>
              /\ txn'[e] = NoTxn
              /\ users' = users \cup txn[e].users
                                \cup (IF last'[e].op = "create_user"
                                      THEN {last'[e].arg} ELSE {})

\* C24: execute_query frames a statement as a read, returning rows without
\* a commit, exactly when its text opens with SELECT after trimming and
\* ignoring case; any other statement, a WITH ... SELECT included, is
\* committed and answered with True or None, never with rows.
C24_Classification ==
    /\ [](\A e \in Executors : C24_Framing(e))
    /\ [][\A e \in Executors : C24_Step(e)]_vars

\* A WITH ... SELECT over a users table that holds a row came back as True.
C24_Witness ==
    /\ last[App].op = "execute_query"
    /\ last[App].query = WithSelectQuery.text
    /\ last[App].result = True
    /\ last[App].arg \in users

\* C25: an executor holds at most one open connection: after a re-dial no
\* handle it dialled earlier is still open, and after disconnect none of
\* the connections it opened is.
C25_SingleConnection ==
    \A e \in Executors :
        /\ ~stale[e]
        /\ last[e].op = "disconnect" => connection[e] # "open"

\* The key of the last Cache call was set, has not been deleted or cleared
\* since, and at the call its entry was not older than ttl_seconds.
C29_Live ==
    /\ set_at[cache_last.key].at # -1
    /\ cache_last.at - set_at[cache_last.key].at <= ttl_seconds

\* C29: Cache.exists(key) returns True exactly when the key was set, has not
\* been deleted or cleared since and its entry is not older than
\* ttl_seconds, whatever value was stored, None included; get on such a key
\* returns the stored value, and get on an expired key returns None and
\* removes the entry.
C29_Exists ==
    /\ cache_last.op = "exists" => (cache_last.ret = True <=> C29_Live)
    /\ cache_last.op = "get" /\ C29_Live =>
           cache_last.ret = set_at[cache_last.key].value
    /\ cache_last.op = "get" /\ set_at[cache_last.key].at # -1 /\ ~C29_Live =>
           /\ cache_last.ret = None
           /\ cache_last.key \notin DOMAIN cache

\* C30: DELIVERED is terminal: an order whose delivery complete_delivery has
\* set to DELIVERED is never IN_TRANSIT again, whatever calls follow; and
\* update_location or complete_delivery for an order id that was never
\* started returns False and changes nothing.
C30_Terminal ==
    /\ \A o \in delivered : deliveries[o].status # "IN_TRANSIT"
    /\ tracker_last.op \in {"update_location", "complete_delivery"}
          /\ ~tracker_last.known =>
             tracker_last.ret = False /\ ~tracker_last.changed

\* C22: every caller flow that opens a connection closes it before it ends:
\* when authenticate_user, register_user, get_user_info, show_restaurants,
\* show_menu or checkout returns, no connection the flow opened is still
\* open.
C22_ClosesOnReturn ==
    [][flow.dialled /\ flow'.name = "idle" =>
          connection'[Manager(flow.name)] # "open"]_vars

C28_Calls ==
    /\ pc[App] = "idle"
    /\ last'[App] # last[App]
    /\ last'[App].op = "create_order"

\* The sum of qty x price over the entries of a cart from the i-th on.
RECURSIVE C28_Sum(_, _)
C28_Sum(c, i) ==
    IF i > Len(c) THEN 0 ELSE c[i].qty * float(c[i].price) + C28_Sum(c, i + 1)

\* C28: checkout calls create_order only when a user is logged in, the cart
\* is non-empty, the connection succeeded, the user's row was found and all
\* cart entries carry the same restaurant_id, and the total it passes is the
\* sum of qty x price over the cart; in every other case it writes nothing
\* to storage and leaves the cart unchanged.
C28_Checkout ==
    [][/\ C28_Calls =>
            /\ flow.name = "checkout"
            /\ current_user # ""
            /\ cart # <<>>
            /\ flow.dialled
            /\ last[App].op = "get_user_by_username"
            /\ last[App].arg = current_user
            /\ last[App].ret.kind = "row"
            /\ \A i \in DOMAIN cart : cart[i].restaurant_id = cart[1].restaurant_id
            /\ last'[App].arg = user_id_of(current_user)
            /\ last'[App].items = Payload(cart)
            /\ pc'[App] = "items" =>
                   /\ frame'[App].total_amount = C28_Sum(cart, 1)
                   /\ frame'[App].restaurant_id = cart[1].restaurant_id
       /\ flow.name = "checkout" /\ flow.at \in {"begin", "user", "close"} =>
            /\ orders' = orders /\ order_items' = order_items /\ users' = users
            /\ txn'[App] = NoTxn
            /\ cart' # cart => flow.at = "close" /\ flow.order_id.kind = "id"
       /\ flow.name # "checkout" /\ flow'.name # "checkout" =>
            orders' = orders /\ order_items' = order_items
      ]_vars

\* checkout placed an order of two entries, one of them with quantity 2, and
\* emptied the cart.
C28_Witness ==
    /\ flow = NoFlow /\ screen = "cart" /\ cart = <<>>
    /\ last[App].op = "disconnect"
    /\ \E o \in orders :
          /\ o.total_amount = 250
          /\ Len(ItemsOf(order_items, o.order_id)) = 2
====
